---- MODULE Spec2Model ----
(***************************************************************************)
(* Model of the spaCy annotation service (spacy-service/app.py).           *)
(*                                                                         *)
(* Strings that the handler transforms (token text, lemma, POS tag, the    *)
(* request text) are sequences of one-character strings, so that lower(),  *)
(* upper() and len() are computed and not assumed.  Opaque strings (the    *)
(* secret, the model identifier, dependency labels) are TLA+ strings.      *)
(*                                                                         *)
(* The third-party pipeline nlp(text) is an oracle: the handler receives   *)
(* some Doc for the text it passed.  The oracle is assumed to return; a    *)
(* raising parse is not caught by the handler and is outside this model.   *)
(***************************************************************************)
EXTENDS Integers, Sequences, FiniteSets, TLC

VARIABLES INTERNAL_KEY, MODEL, loadRaised, nlp, req, resp, doc, nlpCalls

vars == <<INTERNAL_KEY, MODEL, loadRaised, nlp, req, resp, doc, nlpCalls>>

(***************************************************************************)
(* Bounds and input domains                                                *)
(***************************************************************************)
\* longest request text explored
MaxTextLen == 2

\* characters a request text is made of
Alphabet == {"A"}

\* values of the SPACY_INTERNAL_KEY environment variable ("" = unset)
Keys == {"", "k1"}

\* values of the SPACY_MODEL environment variable (first one is the default)
Models == {"en_core_web_md", "en_core_web_sm"}

\* req.headers.get("x-internal-key"): None when the header is missing
NoHeader == "None"
Headers == {NoHeader, "k1", "k2"}

\* JSON values a want* field of the request body can take
JsonFlags == {"absent", "true", "false", "null"}

\* Python None for t.head, as an index that no token has
NoHead == -1

(***************************************************************************)
(* Python str methods                                                      *)
(***************************************************************************)
UpperChars == <<"A", "N", "X">>
LowerChars == <<"a", "n", "x">>

LowerChar(c) ==
    IF \E k \in 1..Len(UpperChars) : UpperChars[k] = c
    THEN LowerChars[CHOOSE k \in 1..Len(UpperChars) : UpperChars[k] = c]
    ELSE c

UpperChar(c) ==
    IF \E k \in 1..Len(LowerChars) : LowerChars[k] = c
    THEN UpperChars[CHOOSE k \in 1..Len(LowerChars) : LowerChars[k] = c]
    ELSE c

\* str.lower()
Lower(s) == [k \in 1..Len(s) |-> LowerChar(s[k])]

\* str.upper()
Upper(s) == [k \in 1..Len(s) |-> UpperChar(s[k])]

\* Python `a or b` on strings: a unless it is empty
StrOr(a, b) == IF a # <<>> THEN a ELSE b

(***************************************************************************)
(* Startup (module level)                                                  *)
(***************************************************************************)
English == [kind |-> "English", model |-> "blank"]

\* variant: the load failure is not caught by a fallback
LoadPipelineNoFallback(model, raised) == [kind |-> "spacy", model |-> model]

\* try: spacy.load(MODEL, disable=["ner"])  except Exception: English()
LoadPipeline(model, raised) ==
    IF raised THEN English ELSE [kind |-> "spacy", model |-> model]

(***************************************************************************)
(* The pipeline oracle: the Docs nlp(text) may return                      *)
(***************************************************************************)
Texts == UNION {[1..n -> Alphabet] : n \in 0..MaxTextLen}

\* per-token annotations the pipeline may supply (head relative to the token)
Annots ==
    { [lemma_ |-> <<>>,         pos_ |-> <<>>,    dep_ |-> "",      head |-> "self"],
      [lemma_ |-> <<"A", "a">>, pos_ |-> <<"n">>, dep_ |-> "nsubj", head |-> "first"],
      [lemma_ |-> <<"A", "a">>, pos_ |-> <<>>,    dep_ |-> "dep",   head |-> "none"] }

RECURSIVE Splits(_)
\* the ways to cut a sequence into contiguous non-empty pieces
Splits(s) ==
    IF s = <<>> THEN {<<>>}
    ELSE UNION { { <<SubSeq(s, 1, k)>> \o r : r \in Splits(SubSeq(s, k + 1, Len(s))) }
                 : k \in 1..Len(s) }

RECURSIVE Flatten(_)
Flatten(ss) == IF ss = <<>> THEN <<>> ELSE Head(ss) \o Flatten(Tail(ss))

RECURSIVE Spans(_, _)
\* character spans of consecutive pieces, the first starting at offset `at`
Spans(pieces, at) ==
    IF pieces = <<>> THEN <<>>
    ELSE <<[start_char |-> at, end_char |-> at + Len(Head(pieces))]>>
         \o Spans(Tail(pieces), at + Len(Head(pieces)))

HeadIndex(h, k) ==
    CASE h = "self"  -> k - 1
      [] h = "first" -> 0
      [] OTHER       -> NoHead

\* Token k (1-based) of a doc: its text and the pipeline's annotations
MkToken(txt, a, k) ==
    [text |-> txt, lemma_ |-> a.lemma_, pos_ |-> a.pos_, dep_ |-> a.dep_,
     head |-> HeadIndex(a.head, k)]

\* every Doc the pipeline may return for `text`
Docs(text) ==
    UNION { UNION { UNION {
        { [text |-> text,
           tokens |-> [k \in 1..Len(seg) |-> MkToken(seg[k], ann[k], k)],
           has_sent_start |-> b,
           sents |-> ss]
          : ss \in IF b THEN { Spans([j \in 1..Len(g) |-> Flatten(g[j])], 0) : g \in Splits(seg) }
                        ELSE {<<>>} }
        : b \in BOOLEAN }
        : ann \in [1..Len(seg) -> Annots] }
        : seg \in Splits(text) }

NoDoc == [text |-> <<>>, tokens |-> <<>>, has_sent_start |-> FALSE, sents |-> <<>>, none |-> TRUE]

(***************************************************************************)
(* Request body validation (class ProcessBody)                             *)
(***************************************************************************)
\* JSON bodies: `text` absent or a string, each want* flag absent or a JSON value
RawBodies ==
    { b \in [textPresent : BOOLEAN, text : Texts,
             wantTokens : JsonFlags, wantSents : JsonFlags, wantDeps : JsonFlags] :
        ~b.textPresent => b.text = <<>> }

\* variant: a missing flag defaults to False
OptionalBoolDefaultFalse(j) ==
    CASE j = "absent" -> "False"
      [] j = "true"   -> "True"
      [] j = "false"  -> "False"
      [] OTHER        -> "None"

\* a field declared `Optional[bool] = True`
OptionalBoolDefaultTrue(j) ==
    CASE j = "absent" -> "True"
      [] j = "true"   -> "True"
      [] j = "false"  -> "False"
      [] OTHER        -> "None"

\* `text: str` has no default: the field is required
BodyValid(raw) == raw.textPresent

ProcessBody(raw) ==
    [text       |-> raw.text,
     wantTokens |-> OptionalBoolDefaultTrue(raw.wantTokens),
     wantSents  |-> OptionalBoolDefaultTrue(raw.wantSents),
     wantDeps   |-> OptionalBoolDefaultTrue(raw.wantDeps)]

\* Python truthiness of an Optional[bool]
Truthy(v) == v = "True"

(***************************************************************************)
(* The /process handler                                                    *)
(***************************************************************************)
\* variant: a missing header is let through
AuthorizedMissingHeaderPasses(key, header) ==
    ~(key # "" /\ header # NoHeader /\ header # key)

\* variant: the header is compared even when no secret is configured
AuthorizedAlwaysCompares(key, header) == header = key

\* negation of the guard of the 401 branch
Authorized(key, header) == ~(key # "" /\ header # key)

\* variant: lemma and pos are passed through without case folding
TokenRecordNoCaseFold(t, k) ==
    [text  |-> t.text,
     lemma |-> StrOr(t.lemma_, t.text),
     pos   |-> StrOr(t.pos_, <<"X">>),
     i     |-> k - 1]

TokenRecord(t, k) ==
    [text  |-> t.text,
     lemma |-> Lower(StrOr(t.lemma_, t.text)),
     pos   |-> Upper(StrOr(t.pos_, <<"X">>)),
     i     |-> k - 1]

\* variant: tokens are produced whatever the flag
TokensOfIgnoringFlag(body, d) ==
    [k \in 1..Len(d.tokens) |-> TokenRecord(d.tokens[k], k)]

TokensOf(body, d) ==
    IF Truthy(body.wantTokens)
    THEN [k \in 1..Len(d.tokens) |-> TokenRecord(d.tokens[k], k)]
    ELSE <<>>

\* variant: the fallback span ends at the token count instead of len(text)
SentsOfTokenCount(body, d) ==
    IF Truthy(body.wantSents) /\ d.has_sent_start
    THEN [k \in 1..Len(d.sents) |-> [start |-> d.sents[k].start_char, end |-> d.sents[k].end_char]]
    ELSE IF Truthy(body.wantSents)
         THEN <<[start |-> 0, end |-> Len(d.tokens)]>>
         ELSE <<>>

SentsOf(body, d) ==
    IF Truthy(body.wantSents) /\ d.has_sent_start
    THEN [k \in 1..Len(d.sents) |-> [start |-> d.sents[k].start_char, end |-> d.sents[k].end_char]]
    ELSE IF Truthy(body.wantSents)
         THEN <<[start |-> 0, end |-> Len(StrOr(body.text, <<>>))]>>
         ELSE <<>>

\* variant: edges are numbered from 1
DepEdgeOneBased(t, k) == [i |-> k, head |-> t.head, dep |-> t.dep_]

DepEdge(t, k) == [i |-> k - 1, head |-> t.head, dep |-> t.dep_]

DepsOf(body, d) ==
    IF Truthy(body.wantDeps)
    THEN [k \in 1..Len(d.tokens) |-> DepEdge(d.tokens[k], k)]
    ELSE <<>>

\* scores are kept as the decimal literals of the source
Placeholders ==
    [sarcasm     |-> [present |-> FALSE, score |-> "0.0"],
     context     |-> [label |-> "general", score |-> "0.1"],
     phraseEdges |-> [hits |-> <<>>]]

ResponseBody(body, d) ==
    [tokens      |-> TokensOf(body, d),
     sents       |-> SentsOf(body, d),
     deps        |-> DepsOf(body, d),
     sarcasm     |-> Placeholders.sarcasm,
     context     |-> Placeholders.context,
     phraseEdges |-> Placeholders.phraseEdges]

\* variant: the default identifier is reported instead of the configured one
HealthBodyDefaultModel(model) == [status |-> "ok", model |-> "en_core_web_md"]

HealthBody(model) == [status |-> "ok", model |-> model]

(***************************************************************************)
(* State machine                                                           *)
(***************************************************************************)
EmptyRaw ==
    [textPresent |-> FALSE, text |-> <<>>,
     wantTokens |-> "absent", wantSents |-> "absent", wantDeps |-> "absent"]

NoResp == [status |-> 0, body |-> [none |-> TRUE]]

Idle == [op |-> "none", header |-> NoHeader, raw |-> EmptyRaw]

Init ==
    /\ INTERNAL_KEY \in Keys
    /\ MODEL \in Models
    /\ loadRaised \in BOOLEAN
    /\ nlp = LoadPipeline(MODEL, loadRaised)
    /\ req = Idle
    /\ resp = NoResp
    /\ doc = NoDoc
    /\ nlpCalls = 0

\* a request reaches the application: route, headers and JSON body
Receive(op, header, raw) ==
    /\ req.op = "none"
    /\ req' = [op |-> op, header |-> header, raw |-> raw]
    /\ UNCHANGED <<INTERNAL_KEY, MODEL, loadRaised, nlp, resp, doc, nlpCalls>>

Pending(op) == req.op = op /\ resp = NoResp

\* GET /health
Health ==
    /\ Pending("health")
    /\ resp' = [status |-> 200, body |-> HealthBody(MODEL)]
    /\ UNCHANGED <<INTERNAL_KEY, MODEL, loadRaised, nlp, req, doc, nlpCalls>>

\* POST /process, body rejected by validation before the handler runs
ProcessInvalid ==
    /\ Pending("process")
    /\ ~BodyValid(req.raw)
    /\ resp' = [status |-> 422, body |-> [detail |-> "validation error"]]
    /\ UNCHANGED <<INTERNAL_KEY, MODEL, loadRaised, nlp, req, doc, nlpCalls>>

\* POST /process, handler raises HTTPException(401)
ProcessUnauthorized ==
    /\ Pending("process")
    /\ BodyValid(req.raw)
    /\ ~Authorized(INTERNAL_KEY, req.header)
    /\ resp' = [status |-> 401, body |-> [detail |-> "unauthorized"]]
    /\ UNCHANGED <<INTERNAL_KEY, MODEL, loadRaised, nlp, req, doc, nlpCalls>>

\* POST /process, handler parses the text once and returns the response
ProcessOk ==
    /\ Pending("process")
    /\ BodyValid(req.raw)
    /\ Authorized(INTERNAL_KEY, req.header)
    /\ \E d \in Docs(StrOr(ProcessBody(req.raw).text, <<>>)) :
          /\ doc' = d
          /\ resp' = [status |-> 200, body |-> ResponseBody(ProcessBody(req.raw), d)]
    /\ nlpCalls' = nlpCalls + 1
    /\ UNCHANGED <<INTERNAL_KEY, MODEL, loadRaised, nlp, req>>

Process ==
    \/ ProcessInvalid
    \/ ProcessUnauthorized
    \/ ProcessOk

\* the response is sent; nothing of the request outlives it
Reply ==
    /\ resp # NoResp
    /\ req' = Idle
    /\ resp' = NoResp
    /\ doc' = NoDoc
    /\ nlpCalls' = 0
    /\ UNCHANGED <<INTERNAL_KEY, MODEL, loadRaised, nlp>>

Next ==
    \/ \E h \in Headers : Receive("health", h, EmptyRaw)
    \/ \E h \in Headers, raw \in RawBodies : Receive("process", h, raw)
    \/ Health
    \/ Process
    \/ Reply

Spec == Init /\ [][Next]_vars

(***************************************************************************)
(* Properties                                                              *)
(***************************************************************************)
\* the /process request in flight has been answered
Answered(op) == req.op = op /\ resp # NoResp

\* the parsed body of the request in flight
Body == ProcessBody(req.raw)

ResponseFields == {"tokens", "sents", "deps", "sarcasm", "context", "phraseEdges"}

NormalResponse == resp.status = 200 /\ DOMAIN resp.body = ResponseFields

\* C1: with a non-empty secret configured, a /process request with a body that
\* passes validation gets a normal Response when x-internal-key equals the
\* secret, and otherwise gets 401 "unauthorized" with the pipeline not invoked
\* and no document, tokens, sents or deps computed.
C1_SecretGate ==
    (INTERNAL_KEY # "" /\ Answered("process") /\ BodyValid(req.raw)) =>
        IF req.header = INTERNAL_KEY
        THEN NormalResponse /\ nlpCalls = 1
        ELSE /\ resp = [status |-> 401, body |-> [detail |-> "unauthorized"]]
             /\ nlpCalls = 0
             /\ doc = NoDoc

C1_Witness ==
    /\ INTERNAL_KEY # ""
    /\ Answered("process")
    /\ BodyValid(req.raw)
    /\ req.header = NoHeader
    /\ resp.status = 401

\* C2: with no secret configured, no /process request is answered 401, and
\* every one whose body passes validation gets a normal Response, whatever
\* the x-internal-key header is or whether it is present.
C2_NoSecretOpen ==
    (INTERNAL_KEY = "" /\ Answered("process")) =>
        /\ resp.status # 401
        /\ BodyValid(req.raw) => NormalResponse

C2_Witness ==
    /\ INTERNAL_KEY = ""
    /\ Answered("process")
    /\ req.header = NoHeader
    /\ NormalResponse

\* C3: a /process request whose body has no `text` field, authorization
\* passing, is answered with a normal Response computed for the text "".
C3_MissingTextTolerated ==
    (Answered("process") /\ ~req.raw.textPresent
        /\ Authorized(INTERNAL_KEY, req.header)) =>
        /\ NormalResponse
        /\ doc.text = <<>>

\* the `i` fields of a sequence of records are 0, 1, ..., n-1 in order
IndexedFromZero(recs, n) ==
    /\ Len(recs) = n
    /\ \A k \in 1..n : recs[k].i = k - 1

\* C4 (as claimed): for any non-empty text the Response has as many Token
\* Records as Dependency Edges, one per token of the parsed document, and the
\* `i` fields of both are 0..n-1 in order.
C4_Original ==
    (Answered("process") /\ resp.status = 200 /\ req.raw.text # <<>>) =>
        /\ Len(resp.body.tokens) = Len(resp.body.deps)
        /\ IndexedFromZero(resp.body.tokens, Len(doc.tokens))
        /\ IndexedFromZero(resp.body.deps, Len(doc.tokens))

\* C4 (amended): for any non-empty text, each of tokens and deps whose flag is
\* true has one record per token of the single parsed document with `i` running
\* 0..n-1 in order, so the two have equal length when both flags are true; a
\* sequence whose flag is not true is empty.
C4_Amended ==
    (Answered("process") /\ resp.status = 200 /\ req.raw.text # <<>>) =>
        /\ IF Truthy(Body.wantTokens)
           THEN IndexedFromZero(resp.body.tokens, Len(doc.tokens))
           ELSE resp.body.tokens = <<>>
        /\ IF Truthy(Body.wantDeps)
           THEN IndexedFromZero(resp.body.deps, Len(doc.tokens))
           ELSE resp.body.deps = <<>>
        /\ (Truthy(Body.wantTokens) /\ Truthy(Body.wantDeps)) =>
               Len(resp.body.tokens) = Len(resp.body.deps)

C4_Witness ==
    /\ Answered("process")
    /\ resp.status = 200
    /\ Truthy(Body.wantTokens)
    /\ Truthy(Body.wantDeps)
    /\ Len(resp.body.tokens) = 2
    /\ Len(resp.body.deps) = 2

\* C5: with wantSents true, a document without sentence-boundary annotation
\* yields exactly the span {0, len(text)}, and an annotated document yields
\* one span per sentence the pipeline reports; with wantSents not true, sents
\* is empty in both cases.
C5_SentenceSpans ==
    (Answered("process") /\ resp.status = 200) =>
        /\ (Truthy(Body.wantSents) /\ ~doc.has_sent_start) =>
               resp.body.sents = <<[start |-> 0, end |-> Len(req.raw.text)]>>
        /\ (Truthy(Body.wantSents) /\ doc.has_sent_start) =>
               /\ Len(resp.body.sents) = Len(doc.sents)
               /\ \A k \in 1..Len(doc.sents) :
                     resp.body.sents[k] = [start |-> doc.sents[k].start_char,
                                           end   |-> doc.sents[k].end_char]
        /\ ~Truthy(Body.wantSents) => resp.body.sents = <<>>

C5_Witness ==
    /\ Answered("process")
    /\ resp.status = 200
    /\ Truthy(Body.wantSents)
    /\ ~doc.has_sent_start
    /\ Len(doc.tokens) = 1
    /\ resp.body.sents = <<[start |-> 0, end |-> 2]>>

\* C6: a request with wantTokens = wantSents = wantDeps = false gets empty
\* tokens, sents and deps, and every successful Response carries the three
\* placeholder fields with their constant values.
C6_AllOffAndPlaceholders ==
    (Answered("process") /\ resp.status = 200) =>
        /\ (req.raw.wantTokens = "false" /\ req.raw.wantSents = "false"
                /\ req.raw.wantDeps = "false") =>
               /\ resp.body.tokens = <<>>
               /\ resp.body.sents = <<>>
               /\ resp.body.deps = <<>>
        /\ resp.body.sarcasm = [present |-> FALSE, score |-> "0.0"]
        /\ resp.body.context = [label |-> "general", score |-> "0.1"]
        /\ resp.body.phraseEdges = [hits |-> <<>>]

C6_Witness ==
    /\ Answered("process")
    /\ resp.status = 200
    /\ req.raw.wantTokens = "false"
    /\ req.raw.wantSents = "false"
    /\ req.raw.wantDeps = "false"
    /\ Len(doc.tokens) = 2
    /\ doc.has_sent_start

\* a flag that is missing counts as true
FlagOn(j) == j \in {"absent", "true"}

\* C7: a missing want* flag acts as true, and each of tokens, sents, deps is
\* produced from the document exactly when its own flag is true, whatever the
\* other two flags are.
C7_FlagDefaultsAndIndependence ==
    (Answered("process") /\ resp.status = 200) =>
        /\ Len(resp.body.tokens) =
               IF FlagOn(req.raw.wantTokens) THEN Len(doc.tokens) ELSE 0
        /\ Len(resp.body.sents) =
               IF FlagOn(req.raw.wantSents)
               THEN (IF doc.has_sent_start THEN Len(doc.sents) ELSE 1)
               ELSE 0
        /\ Len(resp.body.deps) =
               IF FlagOn(req.raw.wantDeps) THEN Len(doc.tokens) ELSE 0

C7_Witness ==
    /\ Answered("process")
    /\ resp.status = 200
    /\ req.raw.wantTokens = "absent"
    /\ req.raw.wantSents = "false"
    /\ req.raw.wantDeps = "false"
    /\ Len(resp.body.tokens) = 2
    /\ resp.body.sents = <<>>
    /\ resp.body.deps = <<>>

C9_HealthAlwaysOk ==
    Answered("health") =>
        resp = [status |-> 200, body |-> [status |-> "ok", model |-> MODEL]]

C9_Witness ==
    /\ Answered("health")
    /\ INTERNAL_KEY # ""
    /\ req.header = NoHeader
    /\ loadRaised
    /\ MODEL # "en_core_web_md"
    /\ resp.status = 200

IsLower(s) == \A k \in 1..Len(s) : \A u \in 1..Len(UpperChars) : s[k] # UpperChars[u]

IsUpper(s) == \A k \in 1..Len(s) : \A l \in 1..Len(LowerChars) : s[k] # LowerChars[l]

\* C10: in every Token Record, lemma is the lowercased pipeline lemma, or the
\* lowercased token text when the lemma is empty; pos is the uppercased tag, or
\* "X" when the tag is empty; text is the token text unchanged.
C10_TokenRecordFields ==
    (Answered("process") /\ resp.status = 200 /\ Truthy(Body.wantTokens)) =>
        /\ Len(resp.body.tokens) = Len(doc.tokens)
        /\ \A k \in 1..Len(doc.tokens) :
              LET t == doc.tokens[k]
                  r == resp.body.tokens[k]
              IN /\ r.text = t.text
                 /\ r.lemma = IF t.lemma_ # <<>> THEN Lower(t.lemma_) ELSE Lower(t.text)
                 /\ IsLower(r.lemma)
                 /\ r.pos = IF t.pos_ # <<>> THEN Upper(t.pos_) ELSE <<"X">>
                 /\ IsUpper(r.pos)

C10_Witness ==
    /\ Answered("process")
    /\ resp.status = 200
    /\ Len(resp.body.tokens) = 2
    /\ resp.body.tokens[1] = [text |-> <<"A">>, lemma |-> <<"a">>, pos |-> <<"X">>, i |-> 0]
    /\ resp.body.tokens[2] = [text |-> <<"A">>, lemma |-> <<"a", "a">>, pos |-> <<"N">>, i |-> 1]

====
